---------------------------- MODULE Spec2Model ----------------------------
(***************************************************************************)
(* State-machine model of src/src/main.rs: the type-graph resolver         *)
(* (visit), the entry populator (the match over the catalogue and the      *)
(* global-variable loop) and the object-file assembler (the tail of main). *)
(*                                                                         *)
(* A Rust String is a sequence of bytes; a BTreeMap (imported under the    *)
(* name HashMap, line 10) is a function whose keys are iterated in         *)
(* ascending byte-lexicographic order.                                     *)
(***************************************************************************)
EXTENDS Integers, Sequences, FiniteSets, TLC

\* ------------------------------------------------------------------ bounds
\* Longest field / parameter list of a catalogue type.
MaxFields == 2
\* Largest array element count.
MaxCount == 2
\* Largest number of global variables.
MaxVars == 2
\* Longest byte blob the debug-info encoder returns for one section.
MaxBlobLen == 1
\* Deepest recursion of visit the process stack holds.
StackLimit == 6

\* ------------------------------------------------- binary-format constants
SIZEOF_EHDR == 64
SIZEOF_SHDR == 64
SIZEOF_PHDR == 56
SIZEOF_SYM == 24
SHT_PROGBITS == 1
SHT_SYMTAB == 2
SHT_STRTAB == 3
SHF_EXECINSTR == 4
SHF_ALLOC == 2
ET_EXEC == 2
EM_X86_64 == 62
ELFCLASS64 == 2
ELFDATA2LSB == 1
ELFOSABI_SYSV == 0
\* st_info of every symbol: 0x10 global binding, 0x01 object type.
ST_INFO_GLOBAL_OBJECT == 17

\* ------------------------------------------------------------ byte strings
Byte == 0..255

\* Ord for String / str: byte-lexicographic, a proper prefix is smaller.
RECURSIVE LexLess(_, _)
LexLess(a, b) ==
    IF b = <<>> THEN FALSE
    ELSE IF a = <<>> THEN TRUE
    ELSE IF Head(a) # Head(b) THEN Head(a) < Head(b)
    ELSE LexLess(Tail(a), Tail(b))

\* The keys of a BTreeMap in iteration order.
RECURSIVE SortedKeys(_)
SortedKeys(S) ==
    IF S = {} THEN <<>>
    ELSE LET m == CHOOSE x \in S : \A y \in S \ {x} : LexLess(x, y)
         IN  <<m>> \o SortedKeys(S \ {m})

\* Decimal digits of a natural number, as format!("{}") prints it.
RECURSIVE Decimal(_)
Decimal(n) ==
    IF n < 10 THEN <<48 + n>> ELSE Decimal(n \div 10) \o <<48 + (n % 10)>>

\* Little-endian encoding of n in w bytes (transmute of a repr(C) integer
\* field on the little-endian target the header declares).
RECURSIVE LE(_, _)
LE(n, w) == IF w = 0 THEN <<>> ELSE <<n % 256>> \o LE(n \div 256, w - 1)

RECURSIVE FromLE(_)
FromLE(bs) == IF bs = <<>> THEN 0 ELSE Head(bs) + 256 * FromLE(Tail(bs))

Zeros(n) == [i \in 1..n |-> 0]

\* The NUL-terminated string that starts at 0-based offset off of table tab.
RECURSIVE ReadCStr(_, _)
ReadCStr(tab, off) ==
    IF off + 1 > Len(tab) \/ tab[off + 1] = 0 THEN <<>>
    ELSE <<tab[off + 1]>> \o ReadCStr(tab, off + 1)

\* ------------------------------------------------------------------- names
N_Empty == <<>>
N_A == <<65>>
N_B == <<66>>
\* "int8_t", "uint8_t", "uint64_t"
N_int8 == <<105, 110, 116, 56, 95, 116>>
N_uint8 == <<117, 105, 110, 116, 56, 95, 116>>
N_uint64 == <<117, 105, 110, 116, 54, 52, 95, 116>>
\* ".text", ".symtab", ".shstrtab", ".debug_info", ".debug_abbrev"
N_text == <<46, 116, 101, 120, 116>>
N_symtab == <<46, 115, 121, 109, 116, 97, 98>>
N_shstrtab == <<46, 115, 104, 115, 116, 114, 116, 97, 98>>
N_debug_info == <<46, 100, 101, 98, 117, 103, 95, 105, 110, 102, 111>>
N_debug_abbrev ==
    <<46, 100, 101, 98, 117, 103, 95, 97, 98, 98, 114, 101, 118>>
\* "g", "gh", and "g\0h" (a JSON "\u0000" inside a variable name)
N_g == <<103>>
N_gh == <<103, 104>>
N_gNULh == <<103, 0, 104>>

\* -------------------------------------------------------- catalogue records
Field(offset, name, typename) ==
    [offset |-> offset, name |-> name, typename |-> typename]
Structure(size, anon, fields) ==
    [kind |-> "Structure", size |-> size, anon |-> anon, fields |-> fields]
Union(size, anon, fields) ==
    [kind |-> "Union", size |-> size, anon |-> anon, fields |-> fields]
Pointer(size, target) == [kind |-> "Pointer", size |-> size, target |-> target]
Typedef(target) == [kind |-> "Typedef", target |-> target]
Parameter(name, typename) == [name |-> name, typename |-> typename]
Function(parameters, returntype) ==
    [kind |-> "Function", parameters |-> parameters, returntype |-> returntype]
Array(count, target) == [kind |-> "Array", count |-> count, target |-> target]
EnumField(name, value) == [name |-> name, value |-> value]
Enum(size, signed, fields) ==
    [kind |-> "Enum", size |-> size, signed |-> signed, fields |-> fields]
Integer(size, signed) == [kind |-> "Integer", size |-> size, signed |-> signed]
GlobalVariable(name, size, typename) ==
    [name |-> name, size |-> size, typename |-> typename]

EmptyMap == [x \in {} |-> x]

\* ------------------------------------------------------------------ inputs
\* The files the program reads (the type tables, variables.json) and what the
\* debug-info encoder will return for the finished tree, drawn from four
\* families: type graphs over two names, one richly shaped type, variable
\* tables, and encoder outputs.
SeqsUpTo(S, n) == UNION {[1..k -> S] : k \in 0..n}

\* Fields "f1", "f2", ... at offsets 0, 4, ... with the given typenames.
FieldsOf(ts) ==
    [i \in 1..Len(ts) |-> Field(4 * (i - 1), <<102, 48 + i>>, ts[i])]
\* Parameters: the first unnamed, the others "p2", "p3", ...
ParamsOf(ts) ==
    [i \in 1..Len(ts) |->
        Parameter(IF i = 1 THEN <<>> ELSE <<112, 48 + i>>, ts[i])]
\* One enumerator "e" = 1.
OneEnumerator == <<EnumField(<<101>>, 1)>>

DebugSectionNames == {N_debug_abbrev, N_debug_info}
\* The blob of a section: L bytes, distinct per section and position.
Blob(name, L) == [i \in 1..L |-> Len(name) * 16 + i]
BlobsOfLen(la, li) ==
    (N_debug_abbrev :> Blob(N_debug_abbrev, la))
        @@ (N_debug_info :> Blob(N_debug_info, li))
DefaultBlobs == BlobsOfLen(0, 1)

Addr(i) == 4096 * i
OneVariable == (Addr(1) :> GlobalVariable(N_g, 4, N_Empty))

Input(load, types, vars, blobs) ==
    [load |-> load, types |-> types, vars |-> vars, blobs |-> blobs]

\* Family G: every type graph over the names A and B whose nodes have at most
\* one outgoing reference, of every kind; "uint64_t" is defined.
GraphRefs == {N_Empty, N_A, N_B}
GraphTypes ==
    UNION {{Pointer(8, r), Typedef(r), Array(1, r), Function(<<>>, r),
            Function(ParamsOf(<<r>>), N_Empty),
            Structure(8, FALSE, FieldsOf(<<r>>)),
            Union(8, TRUE, FieldsOf(<<r>>))} : r \in GraphRefs}
        \cup {Integer(4, TRUE), Enum(8, FALSE, OneEnumerator)}
GraphCatalogues ==
    UNION {[D -> GraphTypes] : D \in SUBSET {N_A, N_B}}
GraphInputs ==
    {Input("ok", c @@ (N_uint64 :> Integer(8, FALSE)), OneVariable, DefaultBlobs) :
        c \in GraphCatalogues}

\* Family S: one type A of any shape within the bounds, in several contexts
\* of defined integer names, a second type, or the empty key.
ShapeRefs == {N_Empty, N_A, N_uint8}
ShapeTypes ==
    UNION {{Structure(8, an, FieldsOf(ts)), Union(8, an, FieldsOf(ts))} :
              an \in BOOLEAN, ts \in SeqsUpTo(ShapeRefs, MaxFields)}
        \cup {Function(ParamsOf(ts), r) :
              ts \in SeqsUpTo(ShapeRefs, MaxFields), r \in ShapeRefs}
        \cup {Enum(sz, sg, OneEnumerator) : sz \in {1, 8}, sg \in BOOLEAN}
        \cup {Array(c, r) : c \in 0..MaxCount, r \in ShapeRefs}
        \cup {Pointer(8, r) : r \in ShapeRefs}
        \cup {Typedef(r) : r \in ShapeRefs}
        \cup {Integer(4, TRUE)}
ShapeContexts ==
    LET i8 == (N_int8 :> Integer(1, TRUE))
        u8 == (N_uint8 :> Integer(1, FALSE))
        u64 == (N_uint64 :> Integer(8, FALSE))
    IN  {EmptyMap, u64, i8 @@ u8, i8 @@ u8 @@ u64,
         i8 @@ u8 @@ u64 @@ (N_B :> Pointer(8, N_A)),
         u8 @@ u64 @@ (N_Empty :> Integer(4, TRUE))}
ShapeInputs ==
    {Input("ok", (N_A :> t) @@ c, OneVariable, DefaultBlobs) :
        t \in ShapeTypes, c \in ShapeContexts}

\* Family V: variable tables over MaxVars addresses; names may be empty,
\* repeat, prefix one another or hold a NUL; "g" may carry a typename that the
\* catalogue defines (A) or not (B).
FixedTypes == (N_A :> Integer(4, TRUE))
VarChoices ==
    {GlobalVariable(n, Len(n) + 1, N_Empty) : n \in {N_Empty, N_g, N_gh, N_gNULh}}
        \cup {GlobalVariable(N_g, 4, t) : t \in {N_A, N_B}}
VarTables ==
    UNION {[D -> VarChoices] : D \in SUBSET {Addr(i) : i \in 1..MaxVars}}
VarInputs == {Input("ok", FixedTypes, v, DefaultBlobs) : v \in VarTables}

\* Family B: encoder outputs of every length up to MaxBlobLen.
BlobInputs ==
    {Input("ok", FixedTypes, OneVariable, BlobsOfLen(la, li)) :
        la \in 0..MaxBlobLen, li \in 0..MaxBlobLen}

\* A table that cannot be read: a type table (collect_types) or
\* variables.json (collect_variables).
FailingInputs ==
    {Input(l, FixedTypes, OneVariable, DefaultBlobs) : l \in {"types_err", "vars_err"}}

Inputs == GraphInputs \cup ShapeInputs \cup VarInputs \cup BlobInputs \cup FailingInputs

\* ------------------------------------------------------------------- state
VARIABLES
    pc,                 \* position of main
    input,              \* the files on disk and the encoder's answer
    file_created,       \* whether test.o exists
    file,               \* the bytes of test.o
    pos,                \* the write cursor of test.o
    type_mapping,       \* TypeName -> BinjaType, as collect_types returns it
    global_variables,   \* address -> GlobalVariable
    dwarf_types,        \* TypeName -> UnitEntryId
    entries,            \* the entries of dwarf.unit; a UnitEntryId is an index
    stack,              \* the frames of visit in progress
    iter,               \* the keys the running for loop has yet to take
    symbols,            \* name -> RawSymbol
    sections,           \* name -> Section
    header,             \* the file header
    section_names,      \* the Section of the section-name string table
    symbol_names,       \* the Section of the symbol-name string table
    section_contents_offset

vars == <<pc, input, file_created, file, pos, type_mapping, global_variables,
          dwarf_types, entries, stack, iter, symbols, sections, header,
          section_names, symbol_names, section_contents_offset>>

resolverVars == <<dwarf_types, entries, stack, iter>>
fileVars == <<file_created, file, pos>>
elfVars == <<symbols, sections, header, section_names, symbol_names,
             section_contents_offset>>
catalogueVars == <<input, type_mapping, global_variables>>

\* ------------------------------------------------------ records of the file
\* RawSection with Default::default() fields.
DefaultShdr ==
    [sh_name |-> 0, sh_type |-> 0, sh_flags |-> 0, sh_addr |-> 0,
     sh_offset |-> 0, sh_size |-> 0, sh_link |-> 0, sh_info |-> 0,
     sh_addralign |-> 0, sh_entsize |-> 0]
Section(hdr, raw) == [hdr |-> hdr, raw |-> raw, off |-> 0]

\* The header as main first builds it.
InitialHeader ==
    [e_ident |-> <<127, 69, 76, 70, ELFCLASS64, ELFDATA2LSB, 1, ELFOSABI_SYSV>>
                    \o Zeros(8),
     e_type |-> ET_EXEC, e_machine |-> EM_X86_64, e_version |-> 1,
     e_entry |-> 0, e_phoff |-> 0, e_shoff |-> 0, e_flags |-> 0,
     e_ehsize |-> SIZEOF_EHDR, e_phentsize |-> SIZEOF_PHDR, e_phnum |-> 0,
     e_shentsize |-> SIZEOF_SHDR, e_shnum |-> 0, e_shstrndx |-> 0]

\* ------------------------------------------------------------ the entry tree
Root == 1
NewUnit == <<[tag |-> "DW_TAG_compile_unit", parent |-> 0, attrs |-> EmptyMap]>>

\* dwarf.unit.add(parent, tag): the new entry's id is the next index.
AddEntry(es, parent, tag) ==
    Append(es, [tag |-> tag, parent |-> parent, attrs |-> EmptyMap])
\* dwarf.unit.get_mut(id).set(at, value)
SetAttr(es, id, at, value) == [es EXCEPT ![id].attrs = (at :> value) @@ @]
\* BTreeMap::insert
MapInsert(m, k, v) == (k :> v) @@ m

\* The keys of a BTreeMap<u64, _> in iteration order.
RECURSIVE AscendingSeq(_)
AscendingSeq(S) ==
    IF S = {} THEN <<>>
    ELSE LET m == CHOOSE x \in S : \A y \in S : x <= y
         IN  <<m>> \o AscendingSeq(S \ {m})

\* ---------------------------------------------------------------- resolver
TagOf(t) ==
    CASE t.kind = "Structure" -> "DW_TAG_structure_type"
      [] t.kind = "Union" -> "DW_TAG_union_type"
      [] t.kind = "Integer" -> "DW_TAG_base_type"
      [] t.kind = "Pointer" -> "DW_TAG_pointer_type"
      [] t.kind = "Typedef" -> "DW_TAG_typedef"
      [] t.kind = "Function" -> "DW_TAG_subroutine_type"
      [] t.kind = "Enum" -> "DW_TAG_enumeration_type"
      [] t.kind = "Array" -> "DW_TAG_array_type"

\* Mutant of RefsOf: the parameter types of a function are not visited.
RefsOf_NoParameters(t) ==
    CASE t.kind \in {"Structure", "Union"} ->
            [i \in 1..Len(t.fields) |-> t.fields[i].typename]
      [] t.kind \in {"Pointer", "Typedef", "Array"} -> <<t.target>>
      [] t.kind = "Function" -> <<t.returntype>>
      [] OTHER -> <<>>

\* The names visit recurses into, in call order.
RefsOf(t) ==
    CASE t.kind \in {"Structure", "Union"} ->
            [i \in 1..Len(t.fields) |-> t.fields[i].typename]
      [] t.kind \in {"Pointer", "Typedef", "Array"} -> <<t.target>>
      [] t.kind = "Function" ->
            <<t.returntype>>
                \o [i \in 1..Len(t.parameters) |-> t.parameters[i].typename]
      [] OTHER -> <<>>

\* Mutant of AlreadyVisited: only the empty name returns early.
AlreadyVisited_EmptyOnly(name) == Len(name) = 0

\* The early return of visit.
AlreadyVisited(name) == name \in DOMAIN dwarf_types \/ Len(name) = 0

\* Mutant of Register: the entry is created but never recorded in the map.
Register_Forgotten(name, id) == dwarf_types

\* The map after visit registers name under a fresh entry.
Register(name, id) == MapInsert(dwarf_types, name, id)

\* visit(name), called with `caller` the frames above it: return at once,
\* panic on a name the catalogue lacks, or add the entry under the root,
\* register it and start on the names the type refers to.
Visit(name, caller) ==
    IF AlreadyVisited(name)
    THEN /\ stack' = caller
         /\ UNCHANGED <<pc, dwarf_types, entries>>
    ELSE IF name \notin DOMAIN type_mapping
    THEN /\ pc' = "panic_visit"
         /\ stack' = caller
         /\ UNCHANGED <<dwarf_types, entries>>
    ELSE IF Len(caller) >= StackLimit
    THEN /\ pc' = "stack_overflow"
         /\ stack' = caller
         /\ UNCHANGED <<dwarf_types, entries>>
    ELSE /\ entries' = AddEntry(entries, Root, TagOf(type_mapping[name]))
         /\ dwarf_types' = Register(name, Len(entries) + 1)
         /\ stack' = Append(caller, [name |-> name,
                                     refs |-> RefsOf(type_mapping[name])])
         /\ pc' = pc

\* File::create and the construction of header, sections and dwarf.
CreateFile ==
    /\ pc = "start"
    /\ file_created' = TRUE
    /\ file' = <<>>
    /\ pos' = 0
    /\ header' = InitialHeader
    /\ sections' = (N_text :> Section([DefaultShdr EXCEPT
                        !.sh_type = SHT_PROGBITS,
                        !.sh_flags = SHF_EXECINSTR + SHF_ALLOC], <<>>))
    /\ symbols' = EmptyMap
    /\ entries' = NewUnit
    /\ pc' = "load"
    /\ UNCHANGED <<catalogueVars, dwarf_types, stack, iter, section_names,
                   symbol_names, section_contents_offset>>

\* collect_types()? and collect_variables()?, then the start of the loop
\* over type_mapping.keys().
Load ==
    /\ pc = "load"
    /\ IF input.load = "ok"
       THEN /\ type_mapping' = input.types
            /\ global_variables' = input.vars
            /\ dwarf_types' = EmptyMap
            /\ iter' = SortedKeys(DOMAIN input.types)
            /\ pc' = "resolve"
       ELSE /\ pc' = "load_error"
            /\ UNCHANGED <<type_mapping, global_variables, dwarf_types, iter>>
    /\ UNCHANGED <<input, fileVars, entries, stack, elfVars>>

\* One iteration of `for name in type_mapping.keys()`.
VisitTop ==
    /\ pc = "resolve"
    /\ stack = <<>>
    /\ iter # <<>>
    /\ iter' = Tail(iter)
    /\ Visit(Head(iter), <<>>)
    /\ UNCHANGED <<catalogueVars, fileVars, elfVars>>

\* The next recursive call of the innermost visit.
VisitChild ==
    /\ pc = "resolve"
    /\ stack # <<>>
    /\ stack[Len(stack)].refs # <<>>
    /\ Visit(Head(stack[Len(stack)].refs),
             [stack EXCEPT ![Len(stack)].refs = Tail(@)])
    /\ UNCHANGED <<catalogueVars, fileVars, elfVars, iter>>

\* The innermost visit has made all its calls and returns.
VisitReturn ==
    /\ pc = "resolve"
    /\ stack # <<>>
    /\ stack[Len(stack)].refs = <<>>
    /\ stack' = SubSeq(stack, 1, Len(stack) - 1)
    /\ UNCHANGED <<pc, catalogueVars, fileVars, elfVars, dwarf_types, entries,
                   iter>>

\* The loop over the keys ends; the loop over type_mapping.into_iter() starts.
ResolveDone ==
    /\ pc = "resolve"
    /\ stack = <<>>
    /\ iter = <<>>
    /\ pc' = "populate"
    /\ iter' = SortedKeys(DOMAIN type_mapping)
    /\ UNCHANGED <<catalogueVars, fileVars, elfVars, dwarf_types, entries, stack>>

\* --------------------------------------------------------------- populator
\* An arm of the populator yields the entries it leaves, whether it ran to its
\* end (ok), and where main is afterwards (why): in the loop, or in a panic.
Ran(es) == [es |-> es, ok |-> TRUE, why |-> "populate"]
\* Option::unwrap on a name the map lacks.
Panicked(es) == [es |-> es, ok |-> FALSE, why |-> "panic_lookup"]
\* "attempt to subtract with overflow"
Overflowed(es) == [es |-> es, ok |-> FALSE, why |-> "panic_overflow"]

\* A name attribute: AttributeValue::StringRef(dwarf.strings.add(s)) stands
\* for the bytes of s.
StringRef(str) == str
\* dwarf.strings.add(s) asserts that s holds no NUL byte.  Of the names the
\* inputs hold, only the names of variables may have one.
HasNul(str) == \E i \in 1..Len(str) : str[i] = 0
NulString(es) == [es |-> es, ok |-> FALSE, why |-> "panic_string"]

\* Mutant of SetTypeRef: a name the map lacks leaves the attribute out.
SetTypeRef_Dropped(es, id, typename) ==
    IF typename \in DOMAIN dwarf_types
    THEN Ran(SetAttr(es, id, "DW_AT_type", dwarf_types[typename]))
    ELSE Ran(es)

\* unit.set(DW_AT_type, UnitRef(*dwarf_types.get(&typename).unwrap()))
SetTypeRef(es, id, typename) ==
    IF typename \in DOMAIN dwarf_types
    THEN Ran(SetAttr(es, id, "DW_AT_type", dwarf_types[typename]))
    ELSE Panicked(es)

\* Mutant of BaseTypeName: the signedness is ignored.
BaseTypeName_Unsigned(bytes, signed) ==
    <<117, 105, 110, 116>> \o Decimal(bytes * 8) \o <<95, 116>>

\* format!("{}int{}_t", if signed { "" } else { "u" }, bytes * 8)
BaseTypeName(bytes, signed) ==
    (IF signed THEN <<>> ELSE <<117>>) \o <<105, 110, 116>>
        \o Decimal(bytes * 8) \o <<95, 116>>

\* unit.set(DW_AT_type, UnitRef(base_type(bytes, signed)))
SetBaseTypeRef(es, id, bytes, signed) ==
    SetTypeRef(es, id, BaseTypeName(bytes, signed))

\* Mutant of U64Sub: the subtraction is left out.
U64Sub_Forgotten(a, b) == [k |-> 0, r |-> a]

\* a - b in u64: the value k * 2^64 + r.  With overflow checks the
\* subtraction panics instead of wrapping.
U64Sub(a, b) == [k |-> IF a < b THEN 1 ELSE 0, r |-> a - b]

\* The member loop of the Structure arm.
RECURSIVE StructureMembers(_, _, _)
StructureMembers(es, id, fields) ==
    IF fields = <<>> THEN Ran(es)
    ELSE LET f == Head(fields)
             m == Len(es) + 1
             named == SetAttr(AddEntry(es, id, "DW_TAG_member"), m,
                              "DW_AT_name", StringRef(f.name))
             typed == SetTypeRef(named, m, f.typename)
         IN  IF ~typed.ok THEN typed
             ELSE StructureMembers(
                     SetAttr(typed.es, m, "DW_AT_data_member_location", f.offset),
                     id, Tail(fields))

\* Mutant of StructureArm: the name is set whatever anon says.
StructureArm_AlwaysNamed(es, name, t) ==
    IF name \notin DOMAIN dwarf_types THEN Panicked(es)
    ELSE LET id == dwarf_types[name]
             named == SetAttr(es, id, "DW_AT_name", StringRef(name))
         IN  StructureMembers(SetAttr(named, id, "DW_AT_byte_size", t.size),
                              id, t.fields)

StructureArm(es, name, t) ==
    IF name \notin DOMAIN dwarf_types THEN Panicked(es)
    ELSE LET id == dwarf_types[name]
             named == IF ~t.anon
                      THEN SetAttr(es, id, "DW_AT_name", StringRef(name))
                      ELSE es
         IN  StructureMembers(SetAttr(named, id, "DW_AT_byte_size", t.size),
                              id, t.fields)

\* The member loop of the Union arm.
RECURSIVE UnionMembers(_, _, _)
UnionMembers(es, id, fields) ==
    IF fields = <<>> THEN Ran(es)
    ELSE LET f == Head(fields)
             m == Len(es) + 1
             named == SetAttr(AddEntry(es, id, "DW_TAG_member"), m,
                              "DW_AT_name", StringRef(f.name))
             typed == SetTypeRef(named, m, f.typename)
         IN  IF ~typed.ok THEN typed
             ELSE UnionMembers(
                     SetAttr(typed.es, m, "DW_AT_data_member_location", f.offset),
                     id, Tail(fields))

UnionArm(es, name, t) ==
    IF name \notin DOMAIN dwarf_types THEN Panicked(es)
    ELSE LET id == dwarf_types[name]
             named == IF ~t.anon
                      THEN SetAttr(es, id, "DW_AT_name", StringRef(name))
                      ELSE es
         IN  UnionMembers(SetAttr(named, id, "DW_AT_byte_size", t.size),
                          id, t.fields)

Encoding(signed) == IF signed THEN "DW_ATE_signed" ELSE "DW_ATE_unsigned"

IntegerArm(es, name, t) ==
    IF name \notin DOMAIN dwarf_types THEN Panicked(es)
    ELSE LET id == dwarf_types[name]
         IN  Ran(SetAttr(SetAttr(SetAttr(es, id, "DW_AT_name", StringRef(name)),
                                 id, "DW_AT_byte_size", t.size),
                         id, "DW_AT_encoding", Encoding(t.signed)))

PointerArm(es, name, t) ==
    IF name \notin DOMAIN dwarf_types THEN Panicked(es)
    ELSE LET id == dwarf_types[name]
             sized == SetAttr(es, id, "DW_AT_byte_size", t.size)
         IN  IF Len(t.target) > 0 THEN SetTypeRef(sized, id, t.target)
             ELSE Ran(sized)

TypedefArm(es, name, t) ==
    IF name \notin DOMAIN dwarf_types THEN Panicked(es)
    ELSE LET id == dwarf_types[name]
         IN  SetTypeRef(SetAttr(es, id, "DW_AT_name", StringRef(name)),
                        id, t.target)

\* The parameter loop of the Function arm.
RECURSIVE FunctionParameters(_, _, _)
FunctionParameters(es, id, parameters) ==
    IF parameters = <<>> THEN Ran(es)
    ELSE LET p == Head(parameters)
             m == Len(es) + 1
             added == AddEntry(es, id, "DW_TAG_formal_parameter")
             named == IF Len(p.name) > 0
                      THEN SetAttr(added, m, "DW_AT_name", StringRef(p.name))
                      ELSE added
             typed == SetTypeRef(named, m, p.typename)
         IN  IF ~typed.ok THEN typed
             ELSE FunctionParameters(typed.es, id, Tail(parameters))

FunctionArm(es, name, t) ==
    IF name \notin DOMAIN dwarf_types THEN Panicked(es)
    ELSE LET id == dwarf_types[name]
             proto == SetAttr(es, id, "DW_AT_prototyped", TRUE)
             typed == IF Len(t.returntype) > 0
                      THEN SetTypeRef(proto, id, t.returntype)
                      ELSE Ran(proto)
         IN  IF ~typed.ok THEN typed
             ELSE FunctionParameters(typed.es, id, t.parameters)

\* The enumerator loop of the Enum arm.
RECURSIVE Enumerators(_, _, _)
Enumerators(es, id, fields) ==
    IF fields = <<>> THEN Ran(es)
    ELSE LET f == Head(fields)
             m == Len(es) + 1
         IN  Enumerators(
                 SetAttr(SetAttr(AddEntry(es, id, "DW_TAG_enumerator"), m,
                                 "DW_AT_name", StringRef(f.name)),
                         m, "DW_AT_const_value", f.value),
                 id, Tail(fields))

EnumArm(es, name, t) ==
    IF name \notin DOMAIN dwarf_types THEN Panicked(es)
    ELSE LET id == dwarf_types[name]
             set3 == SetAttr(SetAttr(SetAttr(es, id, "DW_AT_name", StringRef(name)),
                                     id, "DW_AT_byte_size", t.size),
                             id, "DW_AT_encoding", Encoding(t.signed))
             typed == SetBaseTypeRef(set3, id, t.size, t.signed)
         IN  IF ~typed.ok THEN typed
             ELSE Enumerators(typed.es, id, t.fields)

\* The Array arm in a build with (overflow_checks) or without overflow checks
\* on `count - 1`.
ArrayArm(es, name, t, overflow_checks) ==
    IF name \notin DOMAIN dwarf_types THEN Panicked(es)
    ELSE LET id == dwarf_types[name]
             typed == SetTypeRef(es, id, t.target)
             m == Len(es) + 1
             sub == SetBaseTypeRef(AddEntry(typed.es, id, "DW_TAG_subrange_type"),
                                   m, 8, FALSE)
         IN  IF ~typed.ok THEN typed
             ELSE IF ~sub.ok THEN sub
             ELSE IF overflow_checks /\ t.count < 1 THEN Overflowed(sub.es)
             ELSE Ran(SetAttr(sub.es, m, "DW_AT_upper_bound", U64Sub(t.count, 1)))

\* The populator is at a catalogue entry of the given kind.
AtKind(kind) ==
    /\ pc = "populate"
    /\ iter # <<>>
    /\ type_mapping[Head(iter)].kind = kind

\* The arm has run: keep its entries, go on or panic.
FinishArm(r) ==
    /\ entries' = r.es
    /\ pc' = r.why
    /\ iter' = Tail(iter)
    /\ UNCHANGED <<catalogueVars, fileVars, elfVars, dwarf_types, stack>>

PopulateStructure ==
    /\ AtKind("Structure")
    /\ FinishArm(StructureArm(entries, Head(iter), type_mapping[Head(iter)]))

PopulateUnion ==
    /\ AtKind("Union")
    /\ FinishArm(UnionArm(entries, Head(iter), type_mapping[Head(iter)]))

PopulateInteger ==
    /\ AtKind("Integer")
    /\ FinishArm(IntegerArm(entries, Head(iter), type_mapping[Head(iter)]))

PopulatePointer ==
    /\ AtKind("Pointer")
    /\ FinishArm(PointerArm(entries, Head(iter), type_mapping[Head(iter)]))

PopulateTypedef ==
    /\ AtKind("Typedef")
    /\ FinishArm(TypedefArm(entries, Head(iter), type_mapping[Head(iter)]))

PopulateFunction ==
    /\ AtKind("Function")
    /\ FinishArm(FunctionArm(entries, Head(iter), type_mapping[Head(iter)]))

PopulateEnum ==
    /\ AtKind("Enum")
    /\ FinishArm(EnumArm(entries, Head(iter), type_mapping[Head(iter)]))

PopulateArray ==
    /\ AtKind("Array")
    /\ \E overflow_checks \in BOOLEAN :
          FinishArm(ArrayArm(entries, Head(iter), type_mapping[Head(iter)],
                             overflow_checks))

\* The loop over the types ends; the loop over global_variables starts.
PopulateDone ==
    /\ pc = "populate"
    /\ iter = <<>>
    /\ pc' = "variables"
    /\ iter' = AscendingSeq(DOMAIN global_variables)
    /\ UNCHANGED <<catalogueVars, fileVars, elfVars, dwarf_types, entries, stack>>

\* The RawSymbol main inserts for a variable.
NewSymbol(address, size) ==
    [st_name |-> 0, st_info |-> ST_INFO_GLOBAL_OBJECT, st_other |-> 0,
     st_shndx |-> 0, st_size |-> size, st_value |-> address]

\* The variable entry: name, optional type reference, external, location.
VariableEntry(es, address, v) ==
    LET m == Len(es) + 1
        named == SetAttr(AddEntry(es, Root, "DW_TAG_variable"), m,
                         "DW_AT_name", StringRef(v.name))
        typed == IF Len(v.typename) > 0 THEN SetTypeRef(named, m, v.typename)
                 ELSE Ran(named)
    IN  IF HasNul(v.name) THEN NulString(AddEntry(es, Root, "DW_TAG_variable"))
        ELSE IF ~typed.ok THEN typed
        ELSE Ran(SetAttr(SetAttr(typed.es, m, "DW_AT_external", TRUE),
                         m, "DW_AT_location", address))

\* symbols.insert(name, RawSymbol {..})
InsertSymbol(syms, address, v) ==
    MapInsert(syms, v.name, NewSymbol(address, v.size))

\* One iteration of the loop over global_variables.
PopulateVariable ==
    /\ pc = "variables"
    /\ iter # <<>>
    /\ LET address == Head(iter)
           v == global_variables[address]
           r == VariableEntry(entries, address, v)
       IN  /\ entries' = r.es
           /\ pc' = IF r.ok THEN "variables"
                    ELSE IF r.why = "panic_string" THEN "panic_string"
                    ELSE "panic_variable"
           /\ symbols' = IF r.ok THEN InsertSymbol(symbols, address, v)
                         ELSE symbols
    /\ iter' = Tail(iter)
    /\ UNCHANGED <<catalogueVars, fileVars, dwarf_types, stack, sections,
                   header, section_names, symbol_names, section_contents_offset>>

\* "llvm-dwarf", "debuginfo.c", ":3"
N_comp_dir == <<108, 108, 118, 109, 45, 100, 119, 97, 114, 102>>
N_comp_file == <<100, 101, 98, 117, 103, 105, 110, 102, 111, 46, 99>>
N_producer == <<58, 51>>

\* The attributes of the compilation-unit root.
SetCUAttributes ==
    /\ pc = "variables"
    /\ iter = <<>>
    /\ entries' =
          SetAttr(SetAttr(SetAttr(SetAttr(SetAttr(SetAttr(entries,
              Root, "DW_AT_comp_dir", StringRef(N_comp_dir)),
              Root, "DW_AT_name", StringRef(N_comp_file)),
              Root, "DW_AT_low_pc", 0),
              Root, "DW_AT_high_pc", 4919),
              Root, "DW_AT_language", "DW_LANG_C"),
              Root, "DW_AT_producer", StringRef(N_producer))
    /\ pc' = "encode"
    /\ UNCHANGED <<catalogueVars, fileVars, elfVars, dwarf_types, stack, iter>>

\* --------------------------------------------------------------- assembler
\* file.write(bytes) at cursor p of a file holding f; a gap left by a seek
\* past the end reads as zeros.
WriteAt(f, p, bytes) ==
    LET n == IF p + Len(bytes) > Len(f) THEN p + Len(bytes) ELSE Len(f)
    IN  [i \in 1..n |->
            IF i > p /\ i <= p + Len(bytes) THEN bytes[i - p]
            ELSE IF i <= Len(f) THEN f[i] ELSE 0]

\* Mutant of NameOffset: the offset in the file, not in the table.
NameOffset_Absolute(p, table_start) == p

\* (file.stream_position()? - table.hdr.sh_offset) as u32
NameOffset(p, table_start) == p - table_start

\* transmute::<_, [u8; SIZEOF_EHDR]>(header)
HeaderBytes(h) ==
    h.e_ident \o LE(h.e_type, 2) \o LE(h.e_machine, 2) \o LE(h.e_version, 4)
        \o LE(h.e_entry, 8) \o LE(h.e_phoff, 8) \o LE(h.e_shoff, 8)
        \o LE(h.e_flags, 4) \o LE(h.e_ehsize, 2) \o LE(h.e_phentsize, 2)
        \o LE(h.e_phnum, 2) \o LE(h.e_shentsize, 2) \o LE(h.e_shnum, 2)
        \o LE(h.e_shstrndx, 2)

\* transmute::<_, [u8; SIZEOF_SHDR]>(hdr)
ShdrBytes(h) ==
    LE(h.sh_name, 4) \o LE(h.sh_type, 4) \o LE(h.sh_flags, 8)
        \o LE(h.sh_addr, 8) \o LE(h.sh_offset, 8) \o LE(h.sh_size, 8)
        \o LE(h.sh_link, 4) \o LE(h.sh_info, 4) \o LE(h.sh_addralign, 8)
        \o LE(h.sh_entsize, 8)

\* transmute::<_, [u8; SIZEOF_SYM]>(sym)
SymBytes(y) ==
    LE(y.st_name, 4) \o <<y.st_info, y.st_other>> \o LE(y.st_shndx, 2)
        \o LE(y.st_value, 8) \o LE(y.st_size, 8)

\* The symbol-table payload: a null record, then symbols.values() in key order.
RECURSIVE ConcatSyms(_, _)
ConcatSyms(syms, names) ==
    IF names = <<>> THEN <<>>
    ELSE SymBytes(syms[Head(names)]) \o ConcatSyms(syms, Tail(names))
\* Mutant of SymtabPayload: the records as they were inserted, before the
\* loop over the symbol names gave them their st_name.
SymtabPayload_Unnamed(syms) ==
    Zeros(SIZEOF_SYM)
        \o ConcatSyms([n \in DOMAIN syms |-> [syms[n] EXCEPT !.st_name = 0]],
                      SortedKeys(DOMAIN syms))

SymtabPayload(syms) ==
    Zeros(SIZEOF_SYM) \o ConcatSyms(syms, SortedKeys(DOMAIN syms))

\* dwarf.write and the insertion of every section the encoder returns.
EncodeDwarf ==
    /\ pc = "encode"
    /\ sections' =
          [n \in DOMAIN sections \cup DOMAIN input.blobs |->
              IF n \in DOMAIN input.blobs
              THEN Section([DefaultShdr EXCEPT !.sh_type = SHT_PROGBITS],
                           input.blobs[n])
              ELSE sections[n]]
    /\ pc' = "finalize"
    /\ UNCHANGED <<catalogueVars, fileVars, resolverVars, symbols, header,
                   section_names, symbol_names, section_contents_offset>>

\* Mutant of Finalize: the sections are counted before the symbol table is
\* inserted.
Finalize_CountBeforeInsert ==
    /\ pc = "finalize"
    /\ section_names' = Section([DefaultShdr EXCEPT !.sh_type = SHT_STRTAB], <<>>)
    /\ symbol_names' = Section([DefaultShdr EXCEPT !.sh_type = SHT_STRTAB], <<>>)
    /\ sections' = MapInsert(sections, N_symtab,
                      Section([DefaultShdr EXCEPT !.sh_type = SHT_SYMTAB,
                                                  !.sh_link = 2,
                                                  !.sh_entsize = SIZEOF_SYM], <<>>))
    /\ header' = [header EXCEPT
                    !.e_shnum = (@ + 1 + 1 + 1 + Cardinality(DOMAIN sections))
                                % 65536,
                    !.e_shoff = SIZEOF_EHDR,
                    !.e_shstrndx = 1]
    /\ pc' = "write_header"
    /\ UNCHANGED <<catalogueVars, fileVars, resolverVars, symbols,
                   section_contents_offset>>

\* The three bookkeeping sections, the symbol table's insertion and the
\* section count, section-table offset and section-name index of the header.
Finalize ==
    /\ pc = "finalize"
    /\ section_names' = Section([DefaultShdr EXCEPT !.sh_type = SHT_STRTAB], <<>>)
    /\ symbol_names' = Section([DefaultShdr EXCEPT !.sh_type = SHT_STRTAB], <<>>)
    /\ sections' = MapInsert(sections, N_symtab,
                      Section([DefaultShdr EXCEPT !.sh_type = SHT_SYMTAB,
                                                  !.sh_link = 2,
                                                  !.sh_entsize = SIZEOF_SYM], <<>>))
    /\ header' = [header EXCEPT
                    !.e_shnum = (@ + 1 + 1 + 1
                                   + Cardinality(DOMAIN sections \cup {N_symtab}))
                                % 65536,
                    !.e_shoff = SIZEOF_EHDR,
                    !.e_shstrndx = 1]
    /\ pc' = "write_header"
    /\ UNCHANGED <<catalogueVars, fileVars, resolverVars, symbols,
                   section_contents_offset>>

\* file.write(header)
WriteHeader ==
    /\ pc = "write_header"
    /\ file' = WriteAt(file, pos, HeaderBytes(header))
    /\ pos' = pos + SIZEOF_EHDR
    /\ pc' = "shstrtab_begin"
    /\ UNCHANGED <<catalogueVars, file_created, resolverVars, elfVars>>

\* Seek past the section-header table; the leading NUL of the section-name
\* table and the name ".shstrtab".
BeginSectionNames ==
    /\ pc = "shstrtab_begin"
    /\ LET start == pos + header.e_shnum * SIZEOF_SHDR
           f1 == WriteAt(file, start, <<0>>)
           name_at == NameOffset(start + 1, start)
       IN  /\ section_contents_offset' = start
           /\ section_names' = [section_names EXCEPT !.hdr.sh_offset = start,
                                                     !.hdr.sh_name = name_at]
           /\ file' = WriteAt(f1, start + 1, N_shstrtab \o <<0>>)
           /\ pos' = start + 1 + Len(N_shstrtab) + 1
    /\ iter' = SortedKeys(DOMAIN sections)
    /\ pc' = "shstrtab"
    /\ UNCHANGED <<catalogueVars, file_created, dwarf_types, entries, stack,
                   symbols, sections, header, symbol_names>>

\* One iteration of the loop that writes the section names.
WriteSectionName ==
    /\ pc = "shstrtab"
    /\ iter # <<>>
    /\ LET name == Head(iter)
       IN  /\ sections' = [sections EXCEPT
                  ![name].hdr.sh_name = NameOffset(pos, section_names.hdr.sh_offset)]
           /\ file' = WriteAt(file, pos, name \o <<0>>)
           /\ pos' = pos + Len(name) + 1
    /\ iter' = Tail(iter)
    /\ UNCHANGED <<pc, catalogueVars, file_created, dwarf_types, entries, stack,
                   symbols, header, section_names, symbol_names,
                   section_contents_offset>>

\* The closing NUL and size of the section-name table; the offset and leading
\* NUL of the symbol-name table.
EndSectionNames ==
    /\ pc = "shstrtab"
    /\ iter = <<>>
    /\ LET end == pos + 1
       IN  /\ section_contents_offset' = end
           /\ section_names' = [section_names EXCEPT
                  !.hdr.sh_size = end - section_names.hdr.sh_offset]
           /\ symbol_names' = [symbol_names EXCEPT !.hdr.sh_offset = end]
           /\ file' = WriteAt(WriteAt(file, pos, <<0>>), end, <<0>>)
           /\ pos' = end + 1
    /\ iter' = SortedKeys(DOMAIN symbols)
    /\ pc' = "strtab"
    /\ UNCHANGED <<catalogueVars, file_created, dwarf_types, entries, stack,
                   symbols, sections, header>>

\* One iteration of the loop that writes the symbol names.
WriteSymbolName ==
    /\ pc = "strtab"
    /\ iter # <<>>
    /\ LET name == Head(iter)
       IN  /\ symbols' = [symbols EXCEPT
                  ![name].st_name = NameOffset(pos, symbol_names.hdr.sh_offset)]
           /\ file' = WriteAt(file, pos, name \o <<0>>)
           /\ pos' = pos + Len(name) + 1
    /\ iter' = Tail(iter)
    /\ UNCHANGED <<pc, catalogueVars, file_created, dwarf_types, entries, stack,
                   sections, header, section_names, symbol_names,
                   section_contents_offset>>

\* The closing NUL and size of the symbol-name table, and the symbol-table
\* payload.
EndSymbolNames ==
    /\ pc = "strtab"
    /\ iter = <<>>
    /\ file' = WriteAt(file, pos, <<0>>)
    /\ pos' = pos + 1
    /\ sections' = [sections EXCEPT ![N_symtab].raw = SymtabPayload(symbols)]
    /\ section_contents_offset' = pos + 1
    /\ symbol_names' = [symbol_names EXCEPT
          !.hdr.sh_size = (pos + 1) - symbol_names.hdr.sh_offset]
    /\ iter' = SortedKeys(DOMAIN sections)
    /\ pc' = "payload"
    /\ UNCHANGED <<catalogueVars, file_created, dwarf_types, entries, stack,
                   symbols, header, section_names>>

\* Mutant of WritePayload: section_contents_offset is not moved past the
\* payload, so that the next section is written over it.
WritePayload_NoAdvance ==
    /\ pc = "payload"
    /\ iter # <<>>
    /\ LET name == Head(iter)
           raw == sections[name].raw
           end == section_contents_offset + Len(raw)
       IN  /\ file' = WriteAt(file, section_contents_offset, raw)
           /\ pos' = end
           /\ sections' = [sections EXCEPT
                  ![name].hdr.sh_offset = section_contents_offset,
                  ![name].hdr.sh_size = end - section_contents_offset]
           /\ section_contents_offset' = section_contents_offset
    /\ iter' = Tail(iter)
    /\ UNCHANGED <<pc, catalogueVars, file_created, dwarf_types, entries, stack,
                   symbols, header, section_names, symbol_names>>

\* One iteration of the loop that writes the section payloads.
WritePayload ==
    /\ pc = "payload"
    /\ iter # <<>>
    /\ LET name == Head(iter)
           raw == sections[name].raw
           end == section_contents_offset + Len(raw)
       IN  /\ file' = WriteAt(file, section_contents_offset, raw)
           /\ pos' = end
           /\ sections' = [sections EXCEPT
                  ![name].hdr.sh_offset = section_contents_offset,
                  ![name].hdr.sh_size = end - section_contents_offset]
           /\ section_contents_offset' = end
    /\ iter' = Tail(iter)
    /\ UNCHANGED <<pc, catalogueVars, file_created, dwarf_types, entries, stack,
                   symbols, header, section_names, symbol_names>>

\* Mutant of BeginHeaders: the header of the symbol-name table is written
\* before the header of the section-name table.
BeginHeaders_SwappedTables ==
    /\ pc = "payload"
    /\ iter = <<>>
    /\ file' = WriteAt(file, header.e_shoff,
                  ShdrBytes(DefaultShdr) \o ShdrBytes(symbol_names.hdr)
                      \o ShdrBytes(section_names.hdr))
    /\ pos' = header.e_shoff + 3 * SIZEOF_SHDR
    /\ iter' = SortedKeys(DOMAIN sections)
    /\ pc' = "headers"
    /\ UNCHANGED <<catalogueVars, file_created, dwarf_types, entries, stack,
                   elfVars>>

\* Seek to e_shoff; the null header and the headers of the two string tables.
BeginHeaders ==
    /\ pc = "payload"
    /\ iter = <<>>
    /\ file' = WriteAt(file, header.e_shoff,
                  ShdrBytes(DefaultShdr) \o ShdrBytes(section_names.hdr)
                      \o ShdrBytes(symbol_names.hdr))
    /\ pos' = header.e_shoff + 3 * SIZEOF_SHDR
    /\ iter' = SortedKeys(DOMAIN sections)
    /\ pc' = "headers"
    /\ UNCHANGED <<catalogueVars, file_created, dwarf_types, entries, stack,
                   elfVars>>

\* One iteration of the loop that writes the section headers.
WriteSectionHeader ==
    /\ pc = "headers"
    /\ iter # <<>>
    /\ file' = WriteAt(file, pos, ShdrBytes(sections[Head(iter)].hdr))
    /\ pos' = pos + SIZEOF_SHDR
    /\ iter' = Tail(iter)
    /\ UNCHANGED <<pc, catalogueVars, file_created, dwarf_types, entries, stack,
                   elfVars>>

\* main returns Ok(()).
Finish ==
    /\ pc = "headers"
    /\ iter = <<>>
    /\ pc' = "done"
    /\ UNCHANGED <<catalogueVars, fileVars, resolverVars, elfVars>>

\* ----------------------------------------------------------- specification
InitWith(I) ==
    /\ input \in I
    /\ pc = "start"
    /\ file_created = FALSE
    /\ file = <<>>
    /\ pos = 0
    /\ type_mapping = EmptyMap
    /\ global_variables = EmptyMap
    /\ dwarf_types = EmptyMap
    /\ entries = <<>>
    /\ stack = <<>>
    /\ iter = <<>>
    /\ symbols = EmptyMap
    /\ sections = EmptyMap
    /\ header = InitialHeader
    /\ section_names = Section(DefaultShdr, <<>>)
    /\ symbol_names = Section(DefaultShdr, <<>>)
    /\ section_contents_offset = 0

Init == InitWith(Inputs)

Next ==
    \/ CreateFile
    \/ Load
    \/ VisitTop
    \/ VisitChild
    \/ VisitReturn
    \/ ResolveDone
    \/ PopulateStructure
    \/ PopulateUnion
    \/ PopulateInteger
    \/ PopulatePointer
    \/ PopulateTypedef
    \/ PopulateFunction
    \/ PopulateEnum
    \/ PopulateArray
    \/ PopulateDone
    \/ PopulateVariable
    \/ SetCUAttributes
    \/ EncodeDwarf
    \/ Finalize
    \/ WriteHeader
    \/ BeginSectionNames
    \/ WriteSectionName
    \/ EndSectionNames
    \/ WriteSymbolName
    \/ EndSymbolNames
    \/ WritePayload
    \/ BeginHeaders
    \/ WriteSectionHeader
    \/ Finish

Spec == Init /\ [][Next]_vars

\* main up to the end of the loop of visits, on the type graphs of family G.
\* main is one sequential thread: while a step is possible, one is taken.
InitGraph == InitWith(GraphInputs)
ResolveNext ==
    \/ CreateFile
    \/ Load
    \/ VisitTop
    \/ VisitChild
    \/ VisitReturn
    \/ ResolveDone
FairSpec == InitGraph /\ [][ResolveNext]_vars /\ WF_vars(ResolveNext)

\* ------------------------------------------------------------------ claims
Range(f) == {f[x] : x \in DOMAIN f}
Children(es, id) == {i \in 1..Len(es) : es[i].parent = id}
\* The children of id with the given tag, in the order they were added.
ChildrenSeq(es, id, tag) ==
    AscendingSeq({i \in Children(es, id) : es[i].tag = tag})
HasAttr(e, at) == at \in DOMAIN e.attrs

\* Positions of main after the loop of visits has ended normally.
PostResolve ==
    {"populate", "variables", "encode", "finalize", "write_header",
     "shstrtab_begin", "shstrtab", "strtab", "payload", "headers", "done"}
\* Positions of main after the loop over the types has ended normally.
PostPopulate == PostResolve \ {"populate"}
\* Positions of main after the loop over the variables has ended normally.
PostVariables == PostPopulate \ {"variables"}

\* Every TypeName a catalogue type mentions, read off the record itself.
MentionedBy(t) ==
    (IF "fields" \in DOMAIN t /\ t.kind # "Enum"
     THEN {t.fields[i].typename : i \in DOMAIN t.fields} ELSE {})
    \cup (IF "target" \in DOMAIN t THEN {t.target} ELSE {})
    \cup (IF "returntype" \in DOMAIN t THEN {t.returntype} ELSE {})
    \cup (IF "parameters" \in DOMAIN t
          THEN {t.parameters[i].typename : i \in DOMAIN t.parameters} ELSE {})
\* The non-empty names the catalogue's types refer to.
ReferencedNames ==
    UNION {MentionedBy(type_mapping[n]) : n \in DOMAIN type_mapping} \ {<<>>}
AllRefsResolve == ReferencedNames \subseteq DOMAIN type_mapping
\* a refers to b, and b to a (a = b: a type that refers to itself).
Cyclic ==
    \E a, b \in DOMAIN type_mapping :
        /\ b \in MentionedBy(type_mapping[a])
        /\ a \in MentionedBy(type_mapping[b])
TypeTags ==
    {"DW_TAG_structure_type", "DW_TAG_union_type", "DW_TAG_base_type",
     "DW_TAG_pointer_type", "DW_TAG_typedef", "DW_TAG_subroutine_type",
     "DW_TAG_enumeration_type", "DW_TAG_array_type"}
TypeEntries ==
    {i \in 1..Len(entries) : entries[i].parent = Root /\ entries[i].tag \in TypeTags}

\* Each name of the map has its own type entry under the root, and there is
\* no other type entry.
OneToOne ==
    /\ Cardinality(TypeEntries) = Cardinality(DOMAIN dwarf_types)
    /\ \A n \in DOMAIN dwarf_types : dwarf_types[n] \in TypeEntries
    /\ \A n, m \in DOMAIN dwarf_types :
          dwarf_types[n] = dwarf_types[m] => n = m
    /\ DOMAIN dwarf_types = DOMAIN type_mapping \ {<<>>}

\* C1: for a catalogue whose references all resolve, cycles included, the
\* loop that calls visit on every key ends, and when it has ended every
\* name has exactly one entry under the root: as many type entries as names
\* in the map, no two names sharing a handle.
C1_CycleTermination ==
    (pc = "resolve" /\ AllRefsResolve) ~> (pc = "populate" /\ OneToOne)

\* C1 witness: the loop has ended on a catalogue with a cycle through two
\* distinct names, one of them a pointer or a typedef.
C1_Witness ==
    /\ pc = "populate"
    /\ iter = SortedKeys(DOMAIN type_mapping)
    /\ {N_A, N_B} \subseteq DOMAIN type_mapping
    /\ N_B \in MentionedBy(type_mapping[N_A])
    /\ N_A \in MentionedBy(type_mapping[N_B])
    /\ type_mapping[N_A].kind = "Structure"
    /\ type_mapping[N_B].kind = "Pointer"
    /\ OneToOne

\* The non-empty names some catalogue key reaches (the key itself included):
\* with every reference of a resolved catalogue leading to a key, these are
\* the keys and the names they mention.
ReachableNames == (DOMAIN type_mapping \cup ReferencedNames) \ {<<>>}

\* C2 as stated: once visit has run for every key, every catalogue key and
\* every name reachable from one has an entry in the map, and no lookup of a
\* type name fails while the types are populated.
C2_Original ==
    /\ pc \in PostResolve =>
          (DOMAIN type_mapping \cup ReferencedNames) \subseteq DOMAIN dwarf_types
    /\ pc # "panic_lookup"

\* C2 amended: once visit has run for every key, every non-empty catalogue
\* key and every non-empty name reachable from one has an entry in the map
\* and keeps it while the types and variables are populated (a lookup of such
\* a name cannot fail; a lookup of the empty name, or of a built-in integer
\* name the catalogue does not define, still can).
C2_ReferenceClosure ==
    pc \in PostResolve \cup {"panic_lookup", "panic_overflow",
                           "panic_variable", "panic_string"} =>
        ReachableNames \subseteq DOMAIN dwarf_types

\* C2 witness: the types are being populated for a catalogue in which B is
\* reached from A and A from B, and both have their entries.
C2_Witness ==
    /\ pc = "populate"
    /\ {N_A, N_B} \subseteq DOMAIN type_mapping
    /\ N_B \in MentionedBy(type_mapping[N_A])
    /\ type_mapping[N_A].kind = "Function"
    /\ Len(iter) < Cardinality(DOMAIN type_mapping)
    /\ {N_A, N_B} \subseteq DOMAIN dwarf_types

\* A call of visit is the next step, and this is the name it is called with.
VisitCallNext ==
    /\ pc = "resolve"
    /\ \/ stack = <<>> /\ iter # <<>>
       \/ stack # <<>> /\ stack[Len(stack)].refs # <<>>
VisitCallName ==
    IF stack = <<>> THEN Head(iter) ELSE Head(stack[Len(stack)].refs)

\* C3: a visit of a name that is already registered changes nothing: no
\* entry is created, the map stays as it is, and every registered name keeps
\* the handle its first visit gave it.
C3_IdempotentVisit ==
    [][/\ (VisitCallNext /\ VisitCallName \in DOMAIN dwarf_types) =>
              (dwarf_types' = dwarf_types /\ entries' = entries /\ pc' = pc)
       /\ \A n \in DOMAIN dwarf_types :
              n \in DOMAIN dwarf_types' /\ dwarf_types'[n] = dwarf_types[n]]_vars

\* C3 witness: A, a pointer to B, registered B during its own visit; the loop
\* has since called visit on B again, and there are still the two entries of
\* A and B beside the root.
C3_Witness ==
    /\ pc = "resolve"
    /\ stack = <<>>
    /\ iter = <<N_uint64>>
    /\ DOMAIN type_mapping = {N_A, N_B, N_uint64}
    /\ type_mapping[N_A].kind = "Pointer"
    /\ type_mapping[N_A].target = N_B
    /\ DOMAIN dwarf_types = {N_A, N_B}
    /\ Len(entries) = 3

\* ---- the output file, read back
FileSlice(off, size) == SubSeq(file, off + 1, off + size)
File_e_shoff == FromLE(FileSlice(40, 8))
File_e_shnum == FromLE(FileSlice(60, 2))
\* The i-th section header of the file (the null header is number 0).
ShdrAt(i) ==
    LET base == File_e_shoff + SIZEOF_SHDR * i
    IN  [sh_name |-> FromLE(FileSlice(base, 4)),
         sh_type |-> FromLE(FileSlice(base + 4, 4)),
         sh_offset |-> FromLE(FileSlice(base + 24, 8)),
         sh_size |-> FromLE(FileSlice(base + 32, 8)),
         sh_link |-> FromLE(FileSlice(base + 40, 4))]
\* The bytes of the file the i-th section header designates.
SectionBytes(i) == FileSlice(ShdrAt(i).sh_offset, ShdrAt(i).sh_size)
\* The j-th record of a symbol-table payload (the null record is number 0).
SymAt(payload, j) ==
    LET rec == SubSeq(payload, SIZEOF_SYM * j + 1, SIZEOF_SYM * (j + 1))
    IN  [st_name |-> FromLE(SubSeq(rec, 1, 4)),
         st_info |-> rec[5],
         st_shndx |-> FromLE(SubSeq(rec, 7, 8)),
         st_value |-> FromLE(SubSeq(rec, 9, 16)),
         st_size |-> FromLE(SubSeq(rec, 17, 24))]
\* The headers after the null header and the two string tables belong to the
\* sections in the order of their names.
EmittedSections == SortedKeys(DOMAIN sections)
EmittedSymbols == SortedKeys(DOMAIN symbols)
HeaderIndexOf(name) ==
    2 + CHOOSE i \in 1..Len(EmittedSections) : EmittedSections[i] = name
SectionNameTable == SectionBytes(1)
SymbolNameTable == SectionBytes(2)
SymtabBytes == SectionBytes(HeaderIndexOf(N_symtab))

\* The section headers of the file resolve to the sections' names; the
\* symbol-name table is given no name by main (sh_name stays 0).
SectionNamesResolve ==
    /\ ReadCStr(SectionNameTable, ShdrAt(1).sh_name) = N_shstrtab
    /\ ReadCStr(SectionNameTable, ShdrAt(2).sh_name) = <<>>
    /\ \A i \in 1..Len(EmittedSections) :
          ReadCStr(SectionNameTable, ShdrAt(2 + i).sh_name) = EmittedSections[i]
SymbolNameResolves(j) ==
    ReadCStr(SymbolNameTable, SymAt(SymtabBytes, j).st_name) = EmittedSymbols[j]

C5_SymbolPerVariable ==
    pc = "done" =>
        LET n == Cardinality(DOMAIN global_variables)
        IN  /\ Len(SymtabBytes) = SIZEOF_SYM * (1 + n)
            /\ SubSeq(SymtabBytes, 1, SIZEOF_SYM) = Zeros(SIZEOF_SYM)
            /\ \A a \in DOMAIN global_variables :
                  \E j \in 1..n :
                      LET y == SymAt(SymtabBytes, j)
                      IN  /\ y.st_value = a
                          /\ y.st_size = global_variables[a].size
                          /\ y.st_info = 17
                          /\ ReadCStr(SymbolNameTable, y.st_name)
                                = global_variables[a].name

\* The populator has finished the arm of catalogue entry n.
Processed(n) ==
    /\ n \in DOMAIN type_mapping
    /\ \/ pc = "populate" /\ n \notin Range(iter)
       \/ pc \in PostPopulate

\* "<u>int<8*s>_t" for the enum sizes of the inputs, written out.
BackingName(size, signed) ==
    CASE size = 1 /\ signed -> <<105, 110, 116, 56, 95, 116>>
      [] size = 1 /\ ~signed -> <<117, 105, 110, 116, 56, 95, 116>>
      [] size = 8 /\ signed -> <<105, 110, 116, 54, 52, 95, 116>>
      [] size = 8 /\ ~signed -> <<117, 105, 110, 116, 54, 52, 95, 116>>

\* C6: a finished enum entry refers to the map entry named
\* "<u>int<8*size>_t", which the catalogue defines; an enum entry never
\* refers to another entry; and with that name undefined the run does not
\* get past the population of the types.
C6_EnumBackingType ==
    \A n \in DOMAIN type_mapping :
        type_mapping[n].kind = "Enum" =>
            LET b == BackingName(type_mapping[n].size, type_mapping[n].signed)
            IN  /\ Processed(n) =>
                      /\ b \in DOMAIN type_mapping
                      /\ b \in DOMAIN dwarf_types
                      /\ HasAttr(entries[dwarf_types[n]], "DW_AT_type")
                /\ (n \in DOMAIN dwarf_types
                        /\ HasAttr(entries[dwarf_types[n]], "DW_AT_type")) =>
                      /\ b \in DOMAIN dwarf_types
                      /\ entries[dwarf_types[n]].attrs["DW_AT_type"] = dwarf_types[b]
                /\ b \notin DOMAIN type_mapping => pc \notin PostPopulate

\* C6 witness: a finished run whose signed 1-byte enum A had both "int8_t"
\* and "uint8_t" to choose from.
C6_Witness ==
    /\ pc = "done"
    /\ N_A \in DOMAIN type_mapping
    /\ type_mapping[N_A].kind = "Enum"
    /\ type_mapping[N_A].size = 1
    /\ type_mapping[N_A].signed
    /\ {N_int8, N_uint8} \subseteq DOMAIN dwarf_types

\* The array entry of n refers to its element type and has one child, a
\* subrange that refers to "uint64_t" and has upper bound count - 1.
ArrayDescribed(n) ==
    LET t == type_mapping[n]
        id == dwarf_types[n]
        subs == ChildrenSeq(entries, id, "DW_TAG_subrange_type")
    IN  /\ HasAttr(entries[id], "DW_AT_type")
        /\ entries[id].attrs["DW_AT_type"] = dwarf_types[t.target]
        /\ Len(subs) = 1
        /\ Children(entries, id) = {subs[1]}
        /\ HasAttr(entries[subs[1]], "DW_AT_upper_bound")
        /\ entries[subs[1]].attrs["DW_AT_upper_bound"] = [k |-> 0, r |-> t.count - 1]
        /\ HasAttr(entries[subs[1]], "DW_AT_type")
        /\ entries[subs[1]].attrs["DW_AT_type"] = dwarf_types[N_uint64]

\* C7 as stated: every array of the catalogue, once populated, has an entry
\* as ArrayDescribed says, with upper bound count - 1.
C7_Original ==
    \A n \in DOMAIN type_mapping :
        (type_mapping[n].kind = "Array" /\ Processed(n)) => ArrayDescribed(n)

\* C7 amended: the same for every array whose count is at least 1.
C7_ArraySubrange ==
    \A n \in DOMAIN type_mapping :
        (type_mapping[n].kind = "Array" /\ Processed(n)
            /\ type_mapping[n].count >= 1) => ArrayDescribed(n)

\* C7 witness: a finished run with an array A of the largest count.
C7_Witness ==
    /\ pc = "done"
    /\ N_A \in DOMAIN type_mapping
    /\ type_mapping[N_A].kind = "Array"
    /\ type_mapping[N_A].count = MaxCount

\* C8: a populated structure or union entry has the catalogue size, a name
\* (its key) exactly if anon is false, and one member child per field and no
\* other child, in field order, each with the field's name, offset and a
\* reference to the map entry of its typename; and in no state does the
\* entry of an anon structure or union have a name.
C8_StructureMembers ==
    \A n \in DOMAIN type_mapping :
        type_mapping[n].kind \in {"Structure", "Union"} =>
            LET t == type_mapping[n]
            IN  /\ (n \in DOMAIN dwarf_types /\ t.anon) =>
                      ~HasAttr(entries[dwarf_types[n]], "DW_AT_name")
                /\ Processed(n) =>
                      LET id == dwarf_types[n]
                          e == entries[id]
                          ms == ChildrenSeq(entries, id, "DW_TAG_member")
                      IN  /\ HasAttr(e, "DW_AT_byte_size")
                          /\ e.attrs["DW_AT_byte_size"] = t.size
                          /\ HasAttr(e, "DW_AT_name") <=> ~t.anon
                          /\ ~t.anon => e.attrs["DW_AT_name"] = n
                          /\ Len(ms) = Len(t.fields)
                          /\ Children(entries, id) = Range(ms)
                          /\ \A i \in 1..Len(ms) :
                                entries[ms[i]].attrs =
                                    [DW_AT_name |-> t.fields[i].name,
                                     DW_AT_type |-> dwarf_types[t.fields[i].typename],
                                     DW_AT_data_member_location |-> t.fields[i].offset]

\* C8 witness: a finished run with an anonymous structure A of two fields.
C8_Witness ==
    /\ pc = "done"
    /\ N_A \in DOMAIN type_mapping
    /\ type_mapping[N_A].kind = "Structure"
    /\ type_mapping[N_A].anon
    /\ Len(type_mapping[N_A].fields) = 2

\* C9 as stated: when loading fails, test.o has been neither created nor
\* written and visit has created no entry.
C9_LoadFailureBeforeOutput ==
    pc = "load_error" =>
        /\ ~file_created
        /\ file = <<>>
        /\ DOMAIN dwarf_types = {}
        /\ TypeEntries = {}

\* The entry e refers to the map entry of name, unless name is empty.
RefersTo(e, name) ==
    name # <<>> =>
        /\ name \in DOMAIN dwarf_types
        /\ HasAttr(e, "DW_AT_type")
        /\ e.attrs["DW_AT_type"] = dwarf_types[name]
\* Every reference of the type n is in its entry or in its children.
TypeRefsKept(n) ==
    LET t == type_mapping[n]
        id == dwarf_types[n]
        ms == ChildrenSeq(entries, id, "DW_TAG_member")
        ps == ChildrenSeq(entries, id, "DW_TAG_formal_parameter")
    IN  CASE t.kind \in {"Structure", "Union"} ->
                /\ Len(ms) = Len(t.fields)
                /\ \A i \in 1..Len(ms) : RefersTo(entries[ms[i]], t.fields[i].typename)
          [] t.kind \in {"Pointer", "Typedef", "Array"} ->
                RefersTo(entries[id], t.target)
          [] t.kind = "Function" ->
                /\ RefersTo(entries[id], t.returntype)
                /\ Len(ps) = Len(t.parameters)
                /\ \A i \in 1..Len(ps) :
                      RefersTo(entries[ps[i]], t.parameters[i].typename)
          [] OTHER -> TRUE
\* Every variable has its entry under the root, in address order, with its
\* reference.
VariableRefsKept ==
    LET vs == ChildrenSeq(entries, Root, "DW_TAG_variable")
        as == AscendingSeq(DOMAIN global_variables)
    IN  /\ Len(vs) = Len(as)
        /\ \A i \in 1..Len(vs) :
              RefersTo(entries[vs[i]], global_variables[as[i]].typename)

\* C10: the run gets past the population of the types only with every
\* non-empty TypeName a type refers to in the map and referred to by the
\* entry (member, parameter, pointer, typedef, function, array) that names
\* it, and past the variables, to the section headers and to its end, only
\* with the same for every variable; otherwise it has aborted.
C10_NoDroppedReference ==
    /\ pc \in PostPopulate =>
          /\ ReferencedNames \subseteq DOMAIN dwarf_types
          /\ \A n \in DOMAIN type_mapping : TypeRefsKept(n)
    /\ pc \in PostVariables => VariableRefsKept

\* C10 witness: the run has aborted at a variable whose typename "B" has no
\* entry in the map.
C10_Witness ==
    /\ pc = "panic_variable"
    /\ \E a \in DOMAIN global_variables :
          /\ global_variables[a].typename = N_B
          /\ N_B \notin DOMAIN dwarf_types

\* ---- the phases of the assembler
\* main is about to write a section header, or between two of them.
HeadersBeingEmitted == (pc = "payload" /\ iter = <<>>) \/ pc = "headers"
\* The header h describes bytes the file already holds.
InFile(h) == h.sh_offset >= SIZEOF_EHDR /\ h.sh_offset + h.sh_size <= Len(file)
\* Every header main holds describes what the file holds: the payload of
\* each section at its offset with its size, and each name at its sh_name.
LayoutKnown ==
    /\ InFile(section_names.hdr)
    /\ InFile(symbol_names.hdr)
    /\ section_names.hdr.sh_size > 0
    /\ symbol_names.hdr.sh_size > 0
    /\ LET names == FileSlice(section_names.hdr.sh_offset,
                              section_names.hdr.sh_size)
       IN  /\ ReadCStr(names, section_names.hdr.sh_name) = N_shstrtab
           /\ \A n \in DOMAIN sections :
                 /\ InFile(sections[n].hdr)
                 /\ sections[n].hdr.sh_size = Len(sections[n].raw)
                 /\ FileSlice(sections[n].hdr.sh_offset, sections[n].hdr.sh_size)
                       = sections[n].raw
                 /\ ReadCStr(names, sections[n].hdr.sh_name) = n
\* The symbol-table payload has been built.
SymtabSerialized ==
    /\ N_symtab \in DOMAIN sections
    /\ sections[N_symtab].raw # <<>>
\* The payload's records carry the st_name the loop over the symbol names
\* assigned, which is past the leading NUL of the table.
SymtabCarriesNames ==
    LET raw == sections[N_symtab].raw
    IN  /\ Len(raw) = SIZEOF_SYM * (1 + Len(EmittedSymbols))
        /\ \A j \in 1..Len(EmittedSymbols) :
              /\ symbols[EmittedSymbols[j]].st_name >= 1
              /\ SymAt(raw, j).st_name = symbols[EmittedSymbols[j]].st_name

\* C11: whenever main is about to write a section header or is between two
\* of them, every header's sh_offset, sh_size and sh_name already describe
\* what the file holds, and no step from then on changes a header record or
\* a symbol; and whenever the symbol-table payload exists, its records carry
\* the st_name assigned to each symbol, which no later step changes.
C11_HeadersAfterPayloads ==
    /\ [](HeadersBeingEmitted => LayoutKnown)
    /\ [](SymtabSerialized => SymtabCarriesNames)
    /\ [][(HeadersBeingEmitted \/ SymtabSerialized) =>
              /\ symbols' = symbols
              /\ section_names' = section_names
              /\ symbol_names' = symbol_names
              /\ (HeadersBeingEmitted => sections' = sections)]_vars

\* C11 witness: the headers of the string tables and of one section are in
\* the file, others are still to write, and there are two symbols.
C11_Witness ==
    /\ pc = "headers"
    /\ Len(iter) >= 1
    /\ Len(iter) < Cardinality(DOMAIN sections)
    /\ Cardinality(DOMAIN symbols) = 2

\* ---- the section-header table
\* The headers main has written at the section-header offset so far.
HeadersEmitted == (pos - header.e_shoff) \div SIZEOF_SHDR
\* The first byte of the file past the section-header table.
HeaderTableEnd == File_e_shoff + File_e_shnum * SIZEOF_SHDR
\* The names of the section-name table in the order they stand in it, after
\* the leading NUL and ".shstrtab".
RECURSIVE NamesFrom(_, _)
NamesFrom(tab, off) ==
    IF off >= Len(tab) - 1 THEN <<>>
    ELSE LET name == ReadCStr(tab, off)
         IN  <<name>> \o NamesFrom(tab, off + Len(name) + 1)
NamesWritten == Tail(NamesFrom(SectionNameTable, 1))

\* C12: in the finished file, e_shnum is the number of section headers main
\* wrote at e_shoff; these are the null header, the header of the
\* section-name table, the header of the symbol-name table and one header
\* per section, in the order the names stand in the section-name table; and
\* the header table ends at or before the first payload byte.
C12_HeaderTable ==
    pc = "done" =>
        /\ File_e_shoff = SIZEOF_EHDR
        /\ pos = HeaderTableEnd
        /\ File_e_shnum = HeadersEmitted
        /\ File_e_shnum = 3 + Cardinality(DOMAIN sections)
        /\ FileSlice(File_e_shoff, SIZEOF_SHDR) = Zeros(SIZEOF_SHDR)
        /\ ShdrAt(1).sh_type = 3
        /\ ShdrAt(1).sh_offset = section_names.hdr.sh_offset
        /\ ShdrAt(2).sh_type = 3
        /\ ShdrAt(2).sh_offset = symbol_names.hdr.sh_offset
        /\ Len(NamesWritten) = Cardinality(DOMAIN sections)
        /\ \A i \in 1..Len(NamesWritten) :
              LET n == NamesWritten[i]
              IN  /\ n \in DOMAIN sections
                  /\ ShdrAt(2 + i).sh_name = sections[n].hdr.sh_name
                  /\ ShdrAt(2 + i).sh_type = sections[n].hdr.sh_type
                  /\ ShdrAt(2 + i).sh_offset = sections[n].hdr.sh_offset
                  /\ ShdrAt(2 + i).sh_size = sections[n].hdr.sh_size
                  /\ ReadCStr(SectionNameTable, ShdrAt(2 + i).sh_name) = n
        /\ \A i \in 1..(File_e_shnum - 1) :
              HeaderTableEnd <= ShdrAt(i).sh_offset

\* C12 witness: a finished file with the four sections ".debug_abbrev",
\* ".debug_info", ".symtab" and ".text", seven headers.
C12_Witness ==
    /\ pc = "done"
    /\ Cardinality(DOMAIN sections) = 4
    /\ File_e_shnum = 7

\* ---- the payloads
\* The names of a sequence, each followed by its NUL.
RECURSIVE Terminated(_)
Terminated(names) ==
    IF names = <<>> THEN <<>>
    ELSE Head(names) \o <<0>> \o Terminated(Tail(names))
\* What the two string tables must hold: a leading NUL, the names (for the
\* section names ".shstrtab" first) and a closing NUL.
ExpectedSectionNames ==
    <<0>> \o Terminated(<<N_shstrtab>> \o EmittedSections) \o <<0>>
ExpectedSymbolNames == <<0>> \o Terminated(EmittedSymbols) \o <<0>>
\* The payload of a section: the encoder's bytes, the symbol table, or
\* nothing for ".text".
PayloadOf(n) ==
    IF n \in DOMAIN input.blobs THEN input.blobs[n]
    ELSE IF n = N_symtab THEN sections[N_symtab].raw
    ELSE <<>>
\* The i-th header's range of the file holds exactly the bytes b.
Holds(i, b) ==
    /\ ShdrAt(i).sh_size = Len(b)
    /\ ShdrAt(i).sh_offset + ShdrAt(i).sh_size <= Len(file)
    /\ SectionBytes(i) = b

\* C13: in the finished file, the range [sh_offset, sh_offset + sh_size) of
\* every section header after the null header holds exactly the section's
\* payload (the two string tables, every encoder blob, the symbol table of
\* one null record and one record per symbol, nothing for an empty
\* section), and the ranges are back to back in the order of the headers:
\* each starts where the one before ended, so no two overlap.
C13_PayloadRanges ==
    pc = "done" =>
        /\ Holds(1, ExpectedSectionNames)
        /\ Holds(2, ExpectedSymbolNames)
        /\ Len(sections[N_symtab].raw) = SIZEOF_SYM * (1 + Len(EmittedSymbols))
        /\ \A i \in 1..Len(EmittedSections) :
              Holds(2 + i, PayloadOf(EmittedSections[i]))
        /\ \A i \in 1..(File_e_shnum - 2) :
              ShdrAt(i + 1).sh_offset = ShdrAt(i).sh_offset + ShdrAt(i).sh_size
        /\ \A i, j \in 1..(File_e_shnum - 1) :
              i < j => ShdrAt(i).sh_offset + ShdrAt(i).sh_size
                           <= ShdrAt(j).sh_offset

\* C13 witness: a finished file with a non-empty ".debug_abbrev", an empty
\* ".debug_info" and one symbol.
C13_Witness ==
    /\ pc = "done"
    /\ Len(input.blobs[N_debug_abbrev]) > 0
    /\ Len(input.blobs[N_debug_info]) = 0
    /\ Cardinality(DOMAIN symbols) = 1

\* ---- the section indices
File_e_shstrndx == FromLE(FileSlice(62, 2))
\* The header the symbol table's sh_link designates.
SymtabLink == ShdrAt(HeaderIndexOf(N_symtab)).sh_link
\* The i-th header is the header of the string table written at offset off
\* with the content tab.
DesignatesTable(i, off, tab) ==
    /\ i >= 1
    /\ i < File_e_shnum
    /\ ShdrAt(i).sh_type = 3
    /\ ShdrAt(i).sh_offset = off
    /\ ShdrAt(i).sh_offset + ShdrAt(i).sh_size <= Len(file)
    /\ SectionBytes(i) = tab

\* C14: no symbol ever has a section index other than 0; and in the
\* finished file e_shstrndx is 1 and the header of that number is the
\* section-name table's, the symbol table's sh_link is 2 and the header of
\* that number is the symbol-name table's, in which every symbol record's
\* st_name reads the symbol's name, and every record's st_shndx is 0.
C14_SectionIndices ==
    /\ \A n \in DOMAIN symbols : symbols[n].st_shndx = 0
    /\ pc = "done" =>
          /\ File_e_shstrndx = 1
          /\ DesignatesTable(File_e_shstrndx, section_names.hdr.sh_offset,
                             ExpectedSectionNames)
          /\ ShdrAt(HeaderIndexOf(N_symtab)).sh_type = 2
          /\ SymtabLink = 2
          /\ DesignatesTable(SymtabLink, symbol_names.hdr.sh_offset,
                             ExpectedSymbolNames)
          /\ \A j \in 1..Len(EmittedSymbols) :
                /\ SymAt(SymtabBytes, j).st_shndx = 0
                /\ ReadCStr(SectionBytes(SymtabLink),
                            SymAt(SymtabBytes, j).st_name) = EmittedSymbols[j]

\* C14 witness: a finished file with a symbol and non-empty encoder
\* sections.
C14_Witness ==
    /\ pc = "done"
    /\ Cardinality(DOMAIN symbols) = 1
    /\ \A n \in DOMAIN input.blobs : Len(input.blobs[n]) > 0

=============================================================================
